---- MODULE Spec2Model ----
(***************************************************************************)
(* ripc: a minimal ahead-of-time compiler from an arithmetic-expression    *)
(* language to x86-64 assembly text (AT&T syntax).                         *)
(*                                                                         *)
(* The model follows the pipeline of the crate:                            *)
(*   lex.rs      Lexer          (chars -> tokens | lexical errors)         *)
(*   parse.rs    Tokens, Parser (tokens -> Ast | parse error)              *)
(*   codegen.rs  Codegen        (Ast -> instructions | codegen error)      *)
(* and adds an executable model of the emitted instructions so that the    *)
(* run-time value of a compiled program can be stated.                     *)
(*                                                                         *)
(* A source text is a sequence of characters; a character is a one-element *)
(* string, except "E9" which stands for U+00E9, a character that UTF-8     *)
(* encodes in two bytes.                                                   *)
(***************************************************************************)
EXTENDS Integers, Sequences, FiniteSets, TLC

VARIABLES
    source,     \* the source text handed to Lexer::new
    mode,       \* which driver runs: "lex", "tok", "run" or "gen"
    lexer,      \* Lexer { chars, span, eof }
    peeked,     \* Tokens::peeked : Option<Option<Result<Token, Error>>>
    out,        \* items returned so far by the iterator under observation
    lastPeek,   \* the item the most recent Tokens::peek returned, if any
    calls,      \* bookkeeping of the driver: peeks since the last next, any peek
    pc,         \* stage of the compilation pipeline
    parsed,     \* result of Parser::parse
    asm,        \* result of Codegen::write
    cpu,        \* machine executing the emitted text
    sink,       \* Reporter::out : what each call of Reporter::report wrote
    trace       \* history of the run: stack pointer per instruction, last writer per word

vars ==
    <<source, mode, lexer, peeked, out, lastPeek, calls, pc, parsed, asm, cpu, sink, trace>>

(***************************************************************************)
(* Bounds                                                                  *)
(***************************************************************************)
MaxSrcLen == 4      \* longest source text of the lexer / token-buffer runs
MaxPeeks == 2       \* peeks interleaved between two calls of Tokens::next
MaxTail == 2        \* calls made after the iterator first returned None

(***************************************************************************)
(* Characters                                                              *)
(***************************************************************************)
NoChar == ""

Digits == {"0", "1", "2", "3", "4", "5", "6", "7", "8", "9"}

\* char::is_ascii_digit
IsAsciiDigit(ch) == ch \in Digits

\* char::is_ascii_whitespace
IsAsciiWhitespace(ch) == ch \in {" ", "\t", "\n"}

DigitVal(ch) ==
    CASE ch = "0" -> 0 [] ch = "1" -> 1 [] ch = "2" -> 2 [] ch = "3" -> 3
      [] ch = "4" -> 4 [] ch = "5" -> 5 [] ch = "6" -> 6 [] ch = "7" -> 7
      [] ch = "8" -> 8 [] ch = "9" -> 9

\* number of bytes of the UTF-8 encoding of a character
Utf8Len(ch) == IF ch = "E9" THEN 2 ELSE 1

RECURSIVE ByteLen(_)
\* str::len : length of a text in bytes
ByteLen(s) == IF s = <<>> THEN 0 ELSE Utf8Len(Head(s)) + ByteLen(Tail(s))

RECURSIVE ByteOffsetOf(_, _)
\* byte offset at which the character with 0-based index i starts
ByteOffsetOf(s, i) == IF i = 0 THEN 0 ELSE Utf8Len(s[i]) + ByteOffsetOf(s, i - 1)

\* str::is_char_boundary
IsCharBoundary(s, b) == \E i \in 0..Len(s) : ByteOffsetOf(s, i) = b

\* index of the character that starts at byte offset b (a boundary)
CharIndexAt(s, b) == CHOOSE i \in 0..Len(s) : ByteOffsetOf(s, i) = b

(***************************************************************************)
(* span.rs                                                                 *)
(***************************************************************************)
MkSpan(s, e) == [start |-> s, end |-> e]

SpanEOF == MkSpan(0, 0)

\* Span::range : None for the sentinel
SpanRangeIsSome(sp) == sp # SpanEOF

\* impl Add for Span
SpanAdd(a, b) == MkSpan(a.start, b.end)

(***************************************************************************)
(* lex.rs : items                                                          *)
(***************************************************************************)
ItemNone == [t |-> "none", k |-> "", num |-> 0, str |-> <<>>, span |-> SpanEOF]

\* a panic of the lexer (failed slice or failed unwrap)
ItemPanic == [t |-> "panic", k |-> "", num |-> 0, str |-> <<>>, span |-> SpanEOF]

Tok(kind, sp) == [t |-> "tok", k |-> kind, num |-> 0, str |-> <<>>, span |-> sp]

TokNum(n, sp) == [t |-> "tok", k |-> "Num", num |-> n, str |-> <<>>, span |-> sp]

TokText(kind, s, sp) == [t |-> "tok", k |-> kind, num |-> 0, str |-> s, span |-> sp]

\* lex::Error::new(UnexpectedEof, span)
ErrUnexpectedEof(sp) ==
    [t |-> "err", k |-> "UnexpectedEof", num |-> 0, str |-> <<>>, span |-> sp]

\* lex::Error::new(InvalidCharacter(ch), span)
ErrInvalidCharacter(ch, sp) ==
    [t |-> "err", k |-> "InvalidCharacter", num |-> 0, str |-> <<ch>>, span |-> sp]

(***************************************************************************)
(* lex.rs : Lexer                                                          *)
(***************************************************************************)
\* Lexer::new
LexerNew == [chars |-> 0, span |-> SpanEOF, eof |-> FALSE, dead |-> FALSE]

\* Lexer::peek
LexPeek(src, lx) == IF lx.chars < Len(src) THEN src[lx.chars + 1] ELSE NoChar

\* Lexer::peek_n
LexPeekN(src, lx, n) ==
    IF lx.chars + n < Len(src) THEN src[lx.chars + n + 1] ELSE NoChar

\* Lexer::chomp with the wrong end of the span advanced
LexChompMovesStart(src, lx) ==
    IF lx.chars < Len(src)
    THEN [lx EXCEPT !.chars = @ + 1, !.span.start = @ + 1]
    ELSE lx

\* Lexer::chomp : the span grows by one per character, only when one is taken
LexChomp(src, lx) ==
    IF lx.chars < Len(src)
    THEN [lx EXCEPT !.chars = @ + 1, !.span.end = @ + 1]
    ELSE lx

\* Lexer::reset
LexReset(lx) == [lx EXCEPT !.span.start = lx.span.end]

RECURSIVE LexChompWhile(_, _, _)
\* Lexer::chomp_while, for f = is_ascii_digit ("digit"),
\* is_ascii_whitespace ("space") or the identifier class ("ident")
LexChompWhile(src, lx, class) ==
    LET ch == LexPeek(src, lx)
        ok == /\ ch # NoChar
              /\ CASE class = "digit" -> IsAsciiDigit(ch)
                   [] class = "space" -> IsAsciiWhitespace(ch)
                   [] OTHER -> ch \in {"a", "b", "c"}
    IN IF ok THEN LexChompWhile(src, LexChomp(src, lx), class) ELSE lx

\* &self.source[range] : a byte slice; it panics unless both ends are
\* character boundaries inside the text
SliceOk(src, sp) ==
    /\ sp.start <= sp.end
    /\ sp.end <= ByteLen(src)
    /\ IsCharBoundary(src, sp.start)
    /\ IsCharBoundary(src, sp.end)

\* Lexer::slice : the characters between the two byte offsets of the span
LexSlice(src, sp) ==
    SubSeq(src, CharIndexAt(src, sp.start) + 1, CharIndexAt(src, sp.end))

RECURSIVE ParseUsize(_, _)
\* str::parse::<usize> on a run of ASCII digits, most significant first
ParseUsize(s, acc) ==
    IF s = <<>> THEN acc ELSE ParseUsize(Tail(s), 10 * acc + DigitVal(Head(s)))

\* str::parse succeeds only on a non-empty run of ASCII digits
ParsesAsUsize(s) == s # <<>> /\ \A i \in 1..Len(s) : IsAsciiDigit(s[i])

\* lex.rs:93 Num(self.slice().parse().unwrap()) once the digits are chomped
LexNumberEnd(src, lx) ==
    IF SpanRangeIsSome(lx.span) /\ SliceOk(src, lx.span)
       /\ ParsesAsUsize(LexSlice(src, lx.span))
    THEN [item |-> TokNum(ParseUsize(LexSlice(src, lx.span), 0), lx.span), lx |-> lx]
    ELSE [item |-> ItemPanic, lx |-> [lx EXCEPT !.dead = TRUE]]

\* lex.rs:91 the arm '0'..='9'
LexNumber(src, lx) == LexNumberEnd(src, LexChompWhile(src, lx, "digit"))

\* lex.rs:102 the closing quote was chomped: slice, then strip the quotes
\* with &str[1..str.len() - 1]
LexStringEnd(src, lx) ==
    IF /\ SpanRangeIsSome(lx.span)
       /\ SliceOk(src, lx.span)
       /\ SliceOk(LexSlice(src, lx.span), MkSpan(1, ByteLen(LexSlice(src, lx.span)) - 1))
    THEN [item |-> TokText("Str",
                     LexSlice(LexSlice(src, lx.span),
                              MkSpan(1, ByteLen(LexSlice(src, lx.span)) - 1)),
                     lx.span),
          lx |-> lx]
    ELSE [item |-> ItemPanic, lx |-> [lx EXCEPT !.dead = TRUE]]

RECURSIVE LexString(_, _)
\* lex.rs:99 the arm '"' : the loop that scans to the closing quote
LexString(src, lx) ==
    CASE LexPeek(src, lx) = "\"" -> LexStringEnd(src, LexChomp(src, lx))
      [] LexPeek(src, lx) = "\\" /\ LexPeekN(src, lx, 1) \in {"\\", "\""} ->
            LexString(src, LexChomp(src, LexChomp(src, lx)))
      [] LexPeek(src, lx) = NoChar ->
            [item |-> ErrUnexpectedEof(lx.span), lx |-> [lx EXCEPT !.eof = TRUE]]
      [] OTHER -> LexString(src, LexChomp(src, lx))

\* the identifier was chomped: Ident(self.slice())
LexIdentEnd(src, lx) ==
    IF SpanRangeIsSome(lx.span) /\ SliceOk(src, lx.span)
    THEN [item |-> TokText("Ident", LexSlice(src, lx.span), lx.span), lx |-> lx]
    ELSE [item |-> ItemPanic, lx |-> [lx EXCEPT !.dead = TRUE]]

\* the characters that start one of the tokens of LexOperatorOrIdent
StartsOperatorOrIdent(ch) == ch \in {"*", "/", "=", ";", "(", ")", "a", "b", "c"}

\* The arms of the match in Lexer::next for the token kinds that parse.rs
\* consumes (Mul, Div, Assign, Semi, Ident) and the grouping tokens.
LexOperatorOrIdent(src, lx, ch) ==
    CASE ch = "*" -> [item |-> Tok("Mul", lx.span), lx |-> lx]
      [] ch = "/" -> [item |-> Tok("Div", lx.span), lx |-> lx]
      [] ch = "=" -> [item |-> Tok("Assign", lx.span), lx |-> lx]
      [] ch = ";" -> [item |-> Tok("Semi", lx.span), lx |-> lx]
      [] ch = "(" -> [item |-> Tok("OpenParen", lx.span), lx |-> lx]
      [] ch = ")" -> [item |-> Tok("CloseParen", lx.span), lx |-> lx]
      [] OTHER -> LexIdentEnd(src, LexChompWhile(src, lx, "ident"))

\* the invalid character reported but left in the input
LexInvalidLeftInInput(src, lx, ch) ==
    [item |-> ErrInvalidCharacter(ch, lx.span),
     lx |-> [lx EXCEPT !.chars = @ - 1, !.span.end = @ - 1]]

\* lex.rs:118 the arm for any other character, which was already chomped
LexInvalid(src, lx, ch) == [item |-> ErrInvalidCharacter(ch, lx.span), lx |-> lx]

\* lex.rs:95 the whitespace arm, once the run is chomped
LexWhitespaceEnd(lx) == [item |-> Tok("Whitespace", lx.span), lx |-> lx]

\* lex.rs:88 the match on the character just chomped
LexMatch(src, lx, ch) ==
    CASE ch = "+" -> [item |-> Tok("Add", lx.span), lx |-> lx]
      [] ch = "-" -> [item |-> Tok("Sub", lx.span), lx |-> lx]
      [] IsAsciiDigit(ch) -> LexNumber(src, lx)
      [] IsAsciiWhitespace(ch) -> LexWhitespaceEnd(LexChompWhile(src, lx, "space"))
      [] ch = "\"" -> LexString(src, lx)
      [] StartsOperatorOrIdent(ch) -> LexOperatorOrIdent(src, lx, ch)
      [] OTHER -> LexInvalid(src, lx, ch)

\* lex.rs:121 a token was scanned: note whether the input is exhausted
LexNextEnd(src, r) ==
    IF r.item.t = "tok" /\ LexPeek(src, r.lx) = NoChar
    THEN [r EXCEPT !.lx.eof = TRUE]
    ELSE r

\* impl Iterator for Lexer : next
LexNext(src, lx) ==
    IF lx.chars >= Len(src)
    THEN [item |-> ItemNone, lx |-> [LexReset(lx) EXCEPT !.eof = TRUE]]
    ELSE LexNextEnd(src, LexMatch(src, LexChomp(src, LexReset(lx)), src[lx.chars + 1]))

(***************************************************************************)
(* parse.rs : Tokens, the one-slot lookahead buffer                        *)
(***************************************************************************)
\* Option<Option<..>> : the outer None
PeekedNone == [full |-> FALSE, item |-> ItemNone]

PeekedSome(item) == [full |-> TRUE, item |-> item]

IsWhitespace(item) == item.t = "tok" /\ item.k = "Whitespace"

RECURSIVE TokensSkip(_, _)
\* the loop of Tokens::peek : r is what the lexer just returned; pull again
\* while it is whitespace
TokensSkip(src, r) ==
    IF IsWhitespace(r.item) THEN TokensSkip(src, LexNext(src, r.lx)) ELSE r

\* Tokens::peek, slot empty: self.peeked.replace(t) and return it
TokensStore(r) == [item |-> r.item, tk |-> [lexer |-> r.lx, peeked |-> PeekedSome(r.item)]]

\* Tokens::peek that hands the item out without keeping it in the slot
TokensPeekConsumes(src, tk) ==
    IF tk.peeked.full
    THEN [item |-> tk.peeked.item, tk |-> tk]
    ELSE [TokensStore(TokensSkip(src, LexNext(src, tk.lexer))) EXCEPT !.tk.peeked = PeekedNone]

\* Tokens::peek
TokensPeek(src, tk) ==
    IF tk.peeked.full
    THEN [item |-> tk.peeked.item, tk |-> tk]
    ELSE TokensStore(TokensSkip(src, LexNext(src, tk.lexer)))

\* Tokens::next, first pass of the loop: self.peeked.take() or self.lexer.next()
TokensTake(src, tk) ==
    IF tk.peeked.full
    THEN [item |-> tk.peeked.item, lx |-> tk.lexer]
    ELSE LexNext(src, tk.lexer)

\* Tokens::next, end of the loop: the slot is left empty
TokensBreak(r) == [item |-> r.item, tk |-> [lexer |-> r.lx, peeked |-> PeekedNone]]

\* Tokens::next that pulls from the lexer even when the slot is full
TokensNextIgnoresSlot(src, tk) == TokensBreak(TokensSkip(src, LexNext(src, tk.lexer)))

\* impl Iterator for Tokens : next (after take() the slot is empty, so every
\* further pass of the loop pulls from the lexer)
TokensNext(src, tk) == TokensBreak(TokensSkip(src, TokensTake(src, tk)))

(***************************************************************************)
(* parse.rs : Ast                                                          *)
(***************************************************************************)
\* Expr { kind: ExprKind::Lit(Lit::Num(n)), span }
ExprNum(n, sp) == [kind |-> "Num", num |-> n, span |-> sp]

\* Expr { kind: ExprKind::Lit(Lit::String(s)), span }
ExprStr(str, sp) == [kind |-> "Str", str |-> str, span |-> sp]

\* Expr { kind: ExprKind::Var(i), span }
ExprVar(i, sp) == [kind |-> "Var", i |-> i, span |-> sp]

\* Expr { kind: ExprKind::Binary(BinaryExpr { left, op, right }), span }
ExprBinary(op, opspan, left, right) ==
    [kind |-> "Binary", op |-> op, opspan |-> opspan, left |-> left,
     right |-> right, span |-> SpanAdd(left.span, right.span)]

\* Expr { kind: ExprKind::Call(Call { name, args }), span }
ExprCall(name, args, sp) == [kind |-> "Call", name |-> name, args |-> args, span |-> sp]

\* BinaryOp::precedence
Precedence(op) ==
    CASE op = "Assign" -> 1
      [] op \in {"Sub", "Add"} -> 2
      [] op \in {"Mul", "Div"} -> 3

(***************************************************************************)
(* parse.rs : Parser                                                       *)
(***************************************************************************)
\* Parser::new
ParserNew == [tokens |-> [lexer |-> LexerNew, peeked |-> PeekedNone], vars |-> <<>>]

\* results of the parsing functions: Ok(Some(expr)), Ok(None), Err(error),
\* or a panic raised below them
POk(e, ps) == [r |-> "ok", expr |-> e, ps |-> ps]

PNone(ps) == [r |-> "none", ps |-> ps]

PErr(kind, sp, ps) == [r |-> "err", kind |-> kind, span |-> sp, ps |-> ps]

PPanic(ps) == [r |-> "panic", ps |-> ps]

\* the lexical error wrapped with the end-of-input sentinel for its span
PLexErrAtEof(item, ps) ==
    [r |-> "err", kind |-> "Lex", lex |-> item, span |-> SpanEOF, ps |-> ps]

\* impl From<lex::Error> for Error : kind Lex(err), span err.span
PLexErr(item, ps) ==
    [r |-> "err", kind |-> "Lex", lex |-> item, span |-> item.span, ps |-> ps]

\* position of the name in the variable table (1-based), 0 when absent
VarPosition(tbl, name) ==
    IF \E i \in 1..Len(tbl) : tbl[i] = name
    THEN CHOOSE i \in 1..Len(tbl) : tbl[i] = name /\ \A j \in 1..(i - 1) : tbl[j] # name
    ELSE 0

\* the error of Parser::primary anchored at the end-of-input sentinel
ExpectedExpressionAtEof(token, ps) == PErr("ExpectedExpression", SpanEOF, ps)

\* parse.rs:133 the arm of Parser::primary for any other token
ExpectedExpressionAt(token, ps) == PErr("ExpectedExpression", token.span, ps)

\* the Ident arm appending the name whether or not the table holds it
ResolveVarAlwaysPush(token, ps) ==
    POk(ExprVar(Len(ps.vars), token.span), [ps EXCEPT !.vars = Append(@, token.str)])

\* parse.rs:119 the Ident arm: position in the table, or push and len - 1
ResolveVar(token, ps) ==
    IF VarPosition(ps.vars, token.str) # 0
    THEN POk(ExprVar(VarPosition(ps.vars, token.str) - 1, token.span), ps)
    ELSE POk(ExprVar(Len(ps.vars), token.span), [ps EXCEPT !.vars = Append(@, token.str)])

\* Parser::primary after self.next() returned token and left the parser as ps
PrimaryOf(token, ps) ==
    CASE token.t = "panic" -> PPanic(ps)
      [] token.t = "err" -> PLexErr(token, ps)
      [] token.t = "none" -> PNone(ps)
      [] token.k = "Num" -> POk(ExprNum(token.num, token.span), ps)
      [] token.k = "Str" -> POk(ExprStr(token.str, token.span), ps)
      [] token.k = "Ident" -> ResolveVar(token, ps)
      [] OTHER -> ExpectedExpressionAt(token, ps)

\* the parser after a call n of Tokens::next or Tokens::peek
Advance(ps, n) == [ps EXCEPT !.tokens = n.tk]

\* Parser::primary, n being the result of self.next()
PrimaryOn(n, ps) == PrimaryOf(n.item, Advance(ps, n))

\* Parser::primary
ParserPrimary(src, ps) == PrimaryOn(TokensNext(src, ps.tokens), ps)

\* the operator a token stands for in Parser::expr, "" for any other token
BinaryOpOf(kind) ==
    IF kind \in {"Add", "Sub", "Mul", "Div", "Assign"} THEN kind ELSE ""

RECURSIVE ParserExpr(_, _, _)
RECURSIVE ExprLoop(_, _, _, _)
RECURSIVE ExprOnPeek(_, _, _, _, _)
RECURSIVE ExprFold(_, _, _, _, _)
\* Parser::expr, parse.rs:91-102 : right is the result of the recursive
\* call; fold it onto the expression so far and continue the loop
ExprFold(src, right, token, expr, precedence) ==
    CASE right.r = "none" -> PErr("UnexpectedEof", SpanEOF, right.ps)
      [] right.r = "ok" ->
            ExprLoop(src, right.ps,
                     ExprBinary(BinaryOpOf(token.k), token.span, expr, right.expr),
                     precedence)
      [] OTHER -> right

\* Parser::expr, parse.rs:70-91 : token is what self.peek() returned
ExprOnPeek(src, token, ps, expr, precedence) ==
    CASE token.t = "panic" -> PPanic(ps)
      [] token.t = "err" -> PLexErr(token, ps)
      [] token.t = "none" -> POk(expr, ps)
      [] token.k = "Semi" -> POk(expr, ps)
      [] BinaryOpOf(token.k) = "" -> PErr("ExpectedOperator", token.span, ps)
      [] Precedence(BinaryOpOf(token.k)) < precedence -> POk(expr, ps)
      [] OTHER ->
            ExprFold(src,
                     ParserExpr(src, Advance(ps, TokensNext(src, ps.tokens)),
                                Precedence(BinaryOpOf(token.k)) + 1),
                     token, expr, precedence)

\* Parser::expr : one pass of the loop, expr being the expression so far
ExprLoop(src, ps, expr, precedence) ==
    ExprOnPeek(src, TokensPeek(src, ps.tokens).item,
               Advance(ps, TokensPeek(src, ps.tokens)), expr, precedence)

\* Parser::expr, parse.rs:64-67 : first is the result of self.primary()
ExprAfterPrimary(src, first, precedence) ==
    IF first.r = "ok" THEN ExprLoop(src, first.ps, first.expr, precedence) ELSE first

\* Parser::expr
ParserExpr(src, ps, precedence) ==
    ExprAfterPrimary(src, ParserPrimary(src, ps), precedence)

RECURSIVE ParserParseLoop(_, _, _)
RECURSIVE ParseOnExpr(_, _, _)
RECURSIVE ParseOnSemi(_, _, _, _)
\* Parser::parse, parse.rs:39-54 : token is what self.next() returned after
\* the statement e
ParseOnSemi(src, token, e, exprs) ==
    CASE token.t = "panic" -> PPanic(e.ps)
      [] token.t = "err" -> PLexErr(token, e.ps)
      [] token.t = "tok" /\ token.k = "Semi" ->
            ParserParseLoop(src, e.ps, Append(exprs, e.expr))
      [] OTHER ->
            PErr("UnterminatedExpression",
                 IF token.t = "tok" THEN token.span ELSE SpanEOF, e.ps)

\* Parser::parse, parse.rs:38 : e is the result of self.expr(0)
ParseOnExpr(src, e, exprs) ==
    CASE e.r = "none" ->
            \* Ok(Ast { exprs, vars: mem::take(&mut self.vars) })
            [r |-> "ok", exprs |-> exprs, vars |-> e.ps.vars,
             ps |-> [e.ps EXCEPT !.vars = <<>>]]
      [] e.r = "ok" ->
            ParseOnSemi(src, TokensNext(src, e.ps.tokens).item,
                        [e EXCEPT !.ps = Advance(e.ps, TokensNext(src, e.ps.tokens))],
                        exprs)
      [] OTHER -> e

\* Parser::parse : the loop over the statements
ParserParseLoop(src, ps, exprs) == ParseOnExpr(src, ParserExpr(src, ps, 0), exprs)

\* Parser::new(Lexer::new(source)).parse()
ParserParse(src) == ParserParseLoop(src, ParserNew, <<>>)

(***************************************************************************)
(* codegen.rs : Codegen                                                    *)
(***************************************************************************)
\* one line of emitted text
Ins(op, src, dst, imm) == [op |-> op, src |-> src, dst |-> dst, imm |-> imm]

\* results of the emitting functions: Ok(()), Err(error) or a panic; code is
\* the text written to the sink so far
GOk(code) == [r |-> "ok", code |-> code, kind |-> "", span |-> SpanEOF]

GErr(kind, sp, code) == [r |-> "err", code |-> code, kind |-> kind, span |-> sp]

GPanic(code) == [r |-> "panic", code |-> code, kind |-> "", span |-> SpanEOF]

\* Codegen::entry
CodegenEntry ==
    << Ins(".text", "", "", 0),
       Ins(".global", "_start", "", 0),
       Ins("label", "_start", "", 0),
       Ins("xor32", "ebp", "ebp", 0),
       Ins("call", "main", "", 0),
       Ins("movimm32", "", "edi", 1),
       Ins("call", "exit", "", 0) >>

\* Codegen::start_main
CodegenStartMain ==
    << Ins("label", "main", "", 0),
       Ins("push", "rbp", "", 0),
       Ins("mov64", "rsp", "rbp", 0) >>

\* Codegen::end_main
CodegenEndMain ==
    << Ins("mov64", "rbp", "rsp", 0),
       Ins("pop", "", "rbp", 0),
       Ins("ret", "", "", 0) >>

\* the mnemonic chosen in Codegen::binary_op
Mnemonic(op) ==
    CASE op = "Sub" -> "sub32"
      [] op = "Add" -> "add32"
      [] op = "Mul" -> "imul32"
      [] op = "Div" -> "idiv32"
      [] OTHER -> ""

\* the tail of Codegen::binary_op with division lowered like the other
\* operators: the saved left operand is popped into the scratch register
CodegenCombineUniform(op) ==
    IF op = "Div"
    THEN << Ins("pop", "", "rbx", 0),
            Ins("movimm32", "", "edx", 0),
            Ins("idiv32", "ebx", "", 0) >>
    ELSE << Ins("pop", "", "rbx", 0),
            Ins(Mnemonic(op), "ebx", "eax", 0) >>

\* the tail of Codegen::binary_op after both operands were emitted
CodegenCombine(op) ==
    IF op = "Div"
    THEN << Ins("mov32", "eax", "ebx", 0),
            Ins("pop", "", "rax", 0),
            Ins("movimm32", "", "edx", 0),
            Ins("idiv32", "ebx", "", 0) >>
    ELSE << Ins("pop", "", "rbx", 0),
            Ins(Mnemonic(op), "ebx", "eax", 0) >>

\* codegen.rs:70 REGISTERS
REGISTERS == <<"rdi", "rsi", "rdx", "rcx", "r8", "r9">>

\* codegen.rs:72 for i in 1..n : push REGISTERS[i]
CallSaves(n) == [i \in 1..(n - 1) |-> Ins("push", REGISTERS[i + 1], "", 0)]

\* codegen.rs:81 for i in 0..n : pop REGISTERS[i]
CallLoads(n) == [i \in 1..n |-> Ins("pop", "", REGISTERS[i], 0)]

\* the restoring loop of Codegen::call leaving the last saved register on
\* the stack
CallRestoresOneFewer(n) == [i \in 1..(n - 2) |-> Ins("pop", "", REGISTERS[i + 1], 0)]

\* codegen.rs:88 for i in 1..n : pop REGISTERS[i]
CallRestores(n) == [i \in 1..(n - 1) |-> Ins("pop", "", REGISTERS[i + 1], 0)]

RECURSIVE CodegenExpr(_)
RECURSIVE CodegenBinaryOp(_)
RECURSIVE CodegenArgs(_, _)
RECURSIVE CodegenCall(_)
\* codegen.rs:76 the loop of Codegen::call over call.args
CodegenArgs(args, code) ==
    IF args = <<>> THEN GOk(code)
    ELSE LET e == CodegenExpr(Head(args)) IN
         IF e.r # "ok"
         THEN [e EXCEPT !.code = code \o e.code]
         ELSE CodegenArgs(Tail(args), code \o e.code \o <<Ins("push", "rax", "", 0)>>)

\* Codegen::call; REGISTERS[6] is out of bounds: the first loop panics
\* after five pushes when the call has more than six arguments
CodegenCall(call) ==
    LET n == Len(call.args) IN
    IF n > Len(REGISTERS) THEN GPanic(CallSaves(Len(REGISTERS)))
    ELSE LET a == CodegenArgs(call.args, CallSaves(n)) IN
         IF a.r # "ok" THEN a
         ELSE GOk(a.code \o CallLoads(n)
                  \o <<Ins("movimm32", "", "eax", 0), Ins("call", call.name, "", 0)>>
                  \o CallRestores(n))

\* Codegen::binary_op
CodegenBinaryOp(expr) ==
    IF expr.op = "Assign"
    THEN LET right == CodegenExpr(expr.right) IN
         CASE right.r # "ok" -> right
           [] expr.left.kind = "Var" ->
                GOk(Append(right.code, Ins("store32", "eax", "rbp", (expr.left.i + 1) * 4)))
           [] OTHER -> GErr("ExpectedIdent", expr.left.span, right.code)
    ELSE IF Mnemonic(expr.op) = ""
    THEN GErr("InvalidOperator", expr.opspan, <<>>)
    ELSE LET left == CodegenExpr(expr.left) IN
         IF left.r # "ok" THEN left
         ELSE LET pushed == Append(left.code, Ins("push", "rax", "", 0))
                  right == CodegenExpr(expr.right)
              IN IF right.r # "ok"
                 THEN [right EXCEPT !.code = pushed \o right.code]
                 ELSE GOk(pushed \o right.code \o CodegenCombine(expr.op))

\* Codegen::expr
CodegenExpr(expr) ==
    CASE expr.kind = "Num" -> GOk(<<Ins("movimm32", "", "eax", expr.num)>>)
      [] expr.kind = "Str" -> GPanic(<<>>)
      [] expr.kind = "Var" -> GOk(<<Ins("load32", "rbp", "eax", (expr.i + 1) * 4)>>)
      [] expr.kind = "Binary" -> CodegenBinaryOp(expr)
      [] expr.kind = "Call" -> CodegenCall(expr)

RECURSIVE CodegenExprs(_, _)
\* the loop of Codegen::write over ast.exprs
CodegenExprs(exprs, code) ==
    IF exprs = <<>> THEN GOk(code)
    ELSE LET e == CodegenExpr(Head(exprs)) IN
         IF e.r # "ok"
         THEN [e EXCEPT !.code = code \o e.code]
         ELSE CodegenExprs(Tail(exprs), code \o e.code)

\* Codegen::write
CodegenWrite(ast) ==
    LET body == CodegenExprs(ast.exprs, CodegenEntry \o CodegenStartMain)
    IN IF body.r = "ok" THEN GOk(body.code \o CodegenEndMain) ELSE body

(***************************************************************************)
(* error.rs : Reporter, and the Report implementations of the three error  *)
(* types.  Written text is a sequence of pieces: characters of the source  *)
(* and the literal fragments of the format strings.                        *)
(***************************************************************************)
\* results of the writing functions: the text written, or a panic after it
WOk(text) == [r |-> "ok", text |-> text]

WPanic(text) == [r |-> "panic", text |-> text]

\* self.span.range().map(|x| &f.source[x]).unwrap_or("EOF")
FoundText(src, sp) ==
    CASE ~SpanRangeIsSome(sp) -> WOk(<<"EOF">>)
      [] SliceOk(src, sp) -> WOk(LexSlice(src, sp))
      [] OTHER -> WPanic(<<>>)

\* a message that ends with the quoted text found at the span
FoundMessage(prefix, src, sp) ==
    IF FoundText(src, sp).r = "ok"
    THEN WOk(<<prefix>> \o FoundText(src, sp).text \o <<"'">>)
    ELSE WPanic(<<>>)

\* impl Report for lex::Error
LexErrorReport(item) ==
    IF item.k = "InvalidCharacter"
    THEN WOk(<<"Invalid character '">> \o item.str \o <<"'">>)
    ELSE WOk(<<"Found unexpected EOF">>)

\* impl Report for parse::Error
ParseErrorReport(err, src) ==
    CASE err.kind = "ExpectedExpression" ->
            FoundMessage("Expected expression, found '", src, err.span)
      [] err.kind = "ExpectedOperator" ->
            FoundMessage("Expected binary operator, found '", src, err.span)
      [] err.kind = "ExpectedNumber" -> WOk(<<"Expected number">>)
      [] err.kind = "UnexpectedEof" -> WOk(<<"Unexpected EOF">>)
      [] err.kind = "UnterminatedExpression" -> WOk(<<"Unterminated expression">>)
      [] err.kind = "Lex" -> LexErrorReport(err.lex)

\* impl Report for codegen::Error
CodegenErrorReport(err) ==
    CASE err.kind = "ExpectedIntExpr" -> WOk(<<"Expected integer expression">>)
      [] err.kind = "ExpectedIdent" -> WOk(<<"Expected identifier">>)
      [] err.kind = "InvalidOperator" -> WOk(<<"Invalid operator">>)

\* err.report(self) : dispatch on the type of the error
ErrorReport(err, src) ==
    IF err.stage = "parse" THEN ParseErrorReport(err, src) ELSE CodegenErrorReport(err)

\* format!("{:space$}", "", space = n)
Spaces(n) == [i \in 1..n |-> " "]

\* the three writes of Reporter::report once the message is known
ReportWith(msg, src, column) ==
    IF msg.r = "panic" THEN WPanic(<<"[error]: ">>)
    ELSE WOk(<<"[error]: ">> \o msg.text \o <<"\n">> \o src \o <<"\n">>
             \o Spaces(column) \o <<"^", " ", "\n">>)

\* Reporter::report with the caret placed under the end of the span
ReporterReportAtEnd(err, src) == ReportWith(ErrorReport(err, src), src, err.span.end)

\* Reporter::report
ReporterReport(err, src) == ReportWith(ErrorReport(err, src), src, err.span.start)

(***************************************************************************)
(* The target machine: x86-64 semantics of the emitted instructions.       *)
(* A 64-bit register is a pair of 32-bit halves, each held as a signed     *)
(* two's-complement value; memory is addressed in 4-byte words.            *)
(***************************************************************************)
StackTop == 32 * 4

WordAddrs == {4 * i : i \in 0..(StackTop \div 4 - 1)}

\* the registers the emitted text names, rsp last
RegOrder == <<"rax", "rbx", "rcx", "rdx", "rsi", "rdi", "rbp", "r8", "r9", "rsp">>

Reg64Names == {RegOrder[i] : i \in 1..Len(RegOrder)}

RegRank(r) == CHOOSE i \in 1..Len(RegOrder) : RegOrder[i] = r

\* the 64-bit register a 32-bit register name is the low half of
Reg64(r) ==
    CASE r = "eax" -> "rax" [] r = "ebx" -> "rbx" [] r = "edx" -> "rdx"
      [] r = "ebp" -> "rbp" [] r = "esp" -> "rsp" [] r = "edi" -> "rdi"
      [] OTHER -> r

\* the registers a called routine may overwrite (System V calling convention)
CallerSaved == {"rax", "rcx", "rdx", "rsi", "rdi", "r8", "r9"}

\* what a called external routine does to the caller-saved registers
CalleeEffects == {"keeps", "clobbers"}

Q(lo, hi) == [lo |-> lo, hi |-> hi]

\* a 32-bit result: two's-complement wrap-around into -2^31 .. 2^31 - 1
Wrap32(x) ==
    IF x > 2147483647 THEN x - 2147483647 - 2147483647 - 2
    ELSE IF x < -2147483647 - 1 THEN x + 2147483647 + 2147483647 + 2
    ELSE x

\* the state in which the kernel hands control to _start: the registers
\* hold the multiples of g, one per register, and the stack words hold g
CpuStart(code, g) ==
    [ip |-> CHOOSE i \in 1..Len(code) : code[i].op = "label" /\ code[i].src = "_start",
     regs |-> [r \in Reg64Names |->
                  IF r = "rsp" THEN Q(StackTop, 0) ELSE Q(g * RegRank(r), 0)],
     mem |-> [a \in WordAddrs |-> g],
     status |-> "run"]

Fault(c) == [c EXCEPT !.status = "fault"]

\* push of a 64-bit value: the low half lands at the lower address
CpuPush(c, v) ==
    LET sp == c.regs["rsp"].lo - 8 IN
    IF sp \notin WordAddrs THEN Fault(c)
    ELSE [c EXCEPT !.regs["rsp"] = Q(sp, 0),
                   !.mem = [@ EXCEPT ![sp] = v.lo, ![sp + 4] = v.hi]]

\* the 64-bit value on top of the stack
CpuTop(c) == Q(c.mem[c.regs["rsp"].lo], c.mem[c.regs["rsp"].lo + 4])

CpuCanPop(c) == c.regs["rsp"].hi = 0 /\ c.regs["rsp"].lo \in WordAddrs

\* idiv %ebx with edx = 0: the dividend is eax read as unsigned; quotient to
\* eax, remainder to edx; #DE on a zero divisor or a quotient out of range
CpuIdiv(c) ==
    LET a == c.regs["rax"].lo
        b == c.regs["rbx"].lo
        m == IF b < 0 THEN -b ELSE b
        big == 2147483647
        \* dividend < 2^31: a itself; otherwise 2^32 + a = 2 * big + 2 + a
        qa == IF a >= 0 THEN a \div m
              ELSE 2 * (big \div m) + ((2 * (big % m) + 2 + a) \div m)
        ra == IF a >= 0 THEN a % m ELSE (2 * (big % m) + 2 + a) % m
    IN IF b = 0 \/ c.regs["rdx"].lo # 0 THEN Fault(c)
       ELSE IF m = 1 /\ a < 0 THEN Fault(c)
       ELSE [c EXCEPT !.regs["rax"] = Q(IF b < 0 THEN -qa ELSE qa, 0),
                      !.regs["rdx"] = Q(ra, 0)]

\* add / sub / imul %ebx, %eax : AT&T order, the destination is the second
\* operand and the source is taken from it: eax := eax op ebx
CpuArith(c, op) ==
    LET a == c.regs["rax"].lo
        b == c.regs["rbx"].lo
        v == CASE op = "add32" -> a + b
               [] op = "sub32" -> a - b
               [] op = "imul32" -> a * b
    IN [c EXCEPT !.regs["rax"] = Q(Wrap32(v), 0)]

\* the symbol is defined by a label of the emitted text
IsLocal(code, name) ==
    \E k \in 1..Len(code) : code[k].op = "label" /\ code[k].src = name

\* call of a routine of the C library that leaves the stack as it found it:
\* the return address is pushed and popped again, the caller-saved
\* registers come back as the routine left them
CpuCallExtern(c, effect) ==
    LET sp == c.regs["rsp"].lo - 8 IN
    IF sp \notin WordAddrs THEN Fault(c)
    ELSE [c EXCEPT !.ip = @ + 1,
                   !.mem = [@ EXCEPT ![sp] = c.ip + 1, ![sp + 4] = 0],
                   !.regs = [r \in Reg64Names |->
                                IF r \in CallerSaved /\ effect = "clobbers"
                                THEN Q(-1, -1) ELSE c.regs[r]]]

\* the outcomes of the instruction at c.ip: only a call of an external
\* routine has more than one
EffectsAt(code, c) ==
    IF code[c.ip].op = "call" /\ code[c.ip].src # "exit" /\ ~IsLocal(code, code[c.ip].src)
    THEN CalleeEffects ELSE {"keeps"}

\* the stack and frame words the instruction at c.ip writes
CpuWrites(code, c) ==
    LET i == code[c.ip]
        sp == c.regs["rsp"].lo - 8
        addr == c.regs["rbp"].lo - i.imm
    IN CASE i.op \in {"push", "call"} /\ i.src # "exit" /\ sp \in WordAddrs -> {sp, sp + 4}
         [] i.op = "store32" /\ c.regs["rbp"].hi = 0 /\ addr \in WordAddrs -> {addr}
         [] OTHER -> {}

\* execution of the instruction at c.ip
CpuExec(code, c, effect) ==
    LET i == code[c.ip]
        nx == [c EXCEPT !.ip = @ + 1]
        addr == c.regs["rbp"].lo - i.imm
    IN CASE i.op \in {".text", ".global", "label"} -> nx
         [] i.op = "xor32" -> [nx EXCEPT !.regs[Reg64(i.dst)] = Q(0, 0)]
         [] i.op = "movimm32" -> [nx EXCEPT !.regs[Reg64(i.dst)] = Q(i.imm, 0)]
         [] i.op = "mov32" -> [nx EXCEPT !.regs[Reg64(i.dst)] = Q(c.regs[Reg64(i.src)].lo, 0)]
         [] i.op = "mov64" -> [nx EXCEPT !.regs[i.dst] = c.regs[i.src]]
         [] i.op = "push" -> CpuPush(nx, c.regs[i.src])
         [] i.op = "pop" ->
                IF CpuCanPop(c)
                THEN [nx EXCEPT !.regs[i.dst] = CpuTop(c),
                                !.regs["rsp"] = Q(c.regs["rsp"].lo + 8, 0)]
                ELSE Fault(c)
         [] i.op = "load32" ->
                IF c.regs["rbp"].hi = 0 /\ addr \in WordAddrs
                THEN [nx EXCEPT !.regs["rax"] = Q(c.mem[addr], 0)]
                ELSE Fault(c)
         [] i.op = "store32" ->
                IF c.regs["rbp"].hi = 0 /\ addr \in WordAddrs
                THEN [nx EXCEPT !.mem[addr] = c.regs["rax"].lo]
                ELSE Fault(c)
         [] i.op \in {"add32", "sub32", "imul32"} -> CpuArith(nx, i.op)
         [] i.op = "idiv32" -> CpuIdiv(nx)
         [] i.op = "call" /\ i.src = "exit" -> [c EXCEPT !.status = "exit"]
         [] i.op = "call" /\ ~IsLocal(code, i.src) -> CpuCallExtern(c, effect)
         [] i.op = "call" ->
                LET target == CHOOSE k \in 1..Len(code) :
                                  code[k].op = "label" /\ code[k].src = i.src
                IN [CpuPush(c, Q(c.ip + 1, 0)) EXCEPT !.ip = target]
         [] i.op = "ret" ->
                IF CpuCanPop(c)
                THEN [c EXCEPT !.ip = CpuTop(c).lo,
                               !.regs["rsp"] = Q(c.regs["rsp"].lo + 8, 0)]
                ELSE Fault(c)

(***************************************************************************)
(* Source texts of the lexer and token-buffer runs                         *)
(***************************************************************************)
LexAlphabet == {"+", "1", " ", "\"", "\\", "#", "E9", "a", ";"}

TokAlphabet == {"+", "1", " ", "\"", "#"}

TextsOver(alphabet, n) == UNION {[1..k -> alphabet] : k \in 0..n}

\* the pipeline variables are idle while the lexer or the buffer is driven
IdlePipeline ==
    pc = "idle" /\ parsed = <<>> /\ asm = <<>> /\ cpu = <<>> /\ sink = <<>> /\ trace = <<>>

(***************************************************************************)
(* SpecLex : a caller drives Lexer::next                                   *)
(***************************************************************************)
NoneCount(s) == Cardinality({i \in 1..Len(s) : s[i].t = "none"})

InitLex ==
    /\ source \in TextsOver(LexAlphabet, MaxSrcLen)
    /\ mode = "lex"
    /\ lexer = LexerNew
    /\ peeked = PeekedNone
    /\ out = <<>>
    /\ lastPeek = PeekedNone
    /\ calls = [peeks |-> 0, everPeeked |-> FALSE]
    /\ IdlePipeline

\* one call of Lexer::next
LexerNext ==
    /\ mode = "lex"
    /\ ~lexer.dead
    /\ NoneCount(out) < MaxTail
    /\ LET r == LexNext(source, lexer)
       IN /\ lexer' = r.lx
          /\ out' = Append(out, r.item)
    /\ UNCHANGED <<source, mode, peeked, lastPeek, calls, pc, parsed, asm, cpu, sink, trace>>

NextLex == LexerNext

SpecLex == InitLex /\ [][NextLex]_vars

(***************************************************************************)
(* SpecTok : a caller drives Tokens::peek and Tokens::next                 *)
(***************************************************************************)
InitTok ==
    /\ source \in TextsOver(TokAlphabet, MaxSrcLen)
    /\ mode = "tok"
    /\ lexer = LexerNew
    /\ peeked = PeekedNone
    /\ out = <<>>
    /\ lastPeek = PeekedNone
    /\ calls = [peeks |-> 0, everPeeked |-> FALSE]
    /\ IdlePipeline

\* one call of Tokens::peek
CallPeek ==
    /\ mode = "tok"
    /\ ~lexer.dead
    /\ NoneCount(out) < MaxTail
    /\ calls.peeks < MaxPeeks
    /\ LET r == TokensPeek(source, [lexer |-> lexer, peeked |-> peeked])
       IN /\ lexer' = r.tk.lexer
          /\ peeked' = r.tk.peeked
          /\ lastPeek' = PeekedSome(r.item)
    /\ calls' = [peeks |-> calls.peeks + 1, everPeeked |-> TRUE]
    /\ UNCHANGED <<source, mode, out, pc, parsed, asm, cpu, sink, trace>>

\* one call of Tokens::next
CallNext ==
    /\ mode = "tok"
    /\ ~lexer.dead
    /\ NoneCount(out) < MaxTail
    /\ LET r == TokensNext(source, [lexer |-> lexer, peeked |-> peeked])
       IN /\ lexer' = r.tk.lexer
          /\ peeked' = r.tk.peeked
          /\ out' = Append(out, r.item)
    /\ lastPeek' = PeekedNone
    /\ calls' = [calls EXCEPT !.peeks = 0]
    /\ UNCHANGED <<source, mode, pc, parsed, asm, cpu, sink, trace>>

NextTok == CallPeek \/ CallNext

SpecTok == InitTok /\ [][NextTok]_vars

(***************************************************************************)
(* Properties of the lexer and of the token buffer                         *)
(***************************************************************************)
RECURSIVE RawItems(_, _)
\* the raw Lexer output: the items of successive Lexer::next calls up to,
\* and not including, the first None (a panic ends the sequence)
RawItems(src, lx) ==
    LET r == LexNext(src, lx)
    IN CASE r.item.t = "none" -> <<>>
         [] r.item.t = "panic" -> <<r.item>>
         [] OTHER -> <<r.item>> \o RawItems(src, r.lx)

NotWhitespace(item) == ~IsWhitespace(item)

RawFiltered(src) == SelectSeq(RawItems(src, LexerNew), NotWhitespace)

NotNone(item) == item.t # "none"

\* index of the first None in a sequence of items, Len + 1 if there is none
FirstNone(s) ==
    IF \E i \in 1..Len(s) : s[i].t = "none"
    THEN CHOOSE i \in 1..Len(s) : s[i].t = "none" /\ \A j \in 1..(i - 1) : s[j].t # "none"
    ELSE Len(s) + 1

\* C6: the items Tokens::next returns up to its first None are the raw
\* lexer output without the whitespace tokens: same items, same spans, same
\* errors, same order, whatever peeks were made in between.
C6_BufferEqualsFilteredLexer ==
    mode = "tok" =>
        LET exp == RawFiltered(source)
            n == FirstNone(out)
        IN /\ n - 1 <= Len(exp)
           /\ SubSeq(out, 1, n - 1) = SubSeq(exp, 1, n - 1)
           /\ (n <= Len(out) => n - 1 = Len(exp))

\* C6 witness: a text with whitespace and two tokens was drained to None
\* with peeks in between
C6_Witness ==
    /\ mode = "tok"
    /\ calls.everPeeked
    /\ Len(out) >= 3
    /\ out[Len(out)].t = "none"
    /\ \E i \in 1..Len(source) : source[i] = " "

\* number of non-whitespace items the raw lexer yields within the first n
\* characters of the text
LexedWithin(src, n) ==
    LET raw == RawFiltered(src)
    IN Cardinality({i \in 1..Len(raw) : raw[i].t # "panic" /\ raw[i].span.end <= n})

\* C7: a peek returns the item the following next returns; a repeated peek
\* returns the same item and leaves the lexer where it was; the lexer is
\* never more than one non-whitespace item ahead of what next has returned.
C7_OneSlotLookahead ==
    /\ [](mode = "tok" =>
            LexedWithin(source, lexer.chars) - Len(SelectSeq(out, NotNone)) <= 1)
    /\ [][(lastPeek.full /\ out' # out) => out'[Len(out')] = lastPeek.item]_vars
    /\ [][(lastPeek.full /\ lastPeek'.full) =>
            (lastPeek' = lastPeek /\ lexer' = lexer /\ peeked' = peeked)]_vars

\* C7 witness: after at least one peek, next returned an error and then
\* None, and the slot is empty
C7_Witness ==
    /\ mode = "tok"
    /\ calls.everPeeked
    /\ Len(out) >= 2
    /\ out[Len(out)].t = "none"
    /\ out[Len(out) - 1].t = "err"
    /\ ~peeked.full

\* C8: every token the lexer yields has a non-empty span that ends inside
\* the source text.
C8_TokenSpansInsideSource ==
    mode = "lex" =>
        \A i \in 1..Len(out) :
            out[i].t = "tok" =>
                /\ out[i].span.start < out[i].span.end
                /\ out[i].span.end <= ByteLen(source)

\* C8 witness: a token of two or more characters that ends the text
C8_Witness ==
    /\ mode = "lex"
    /\ \E i \in 1..Len(out) :
        /\ out[i].t = "tok"
        /\ out[i].span.end = ByteLen(source)
        /\ out[i].span.end - out[i].span.start >= 2

\* C9 as stated: once Lexer::next has returned an error, no later call
\* returns a token or another error.
C9_LexerStopsAtFirstError ==
    mode = "lex" =>
        \A i \in 1..Len(out) : \A j \in (i + 1)..Len(out) :
            out[i].t = "err" => out[j].t = "none"

\* C9 amended: every call that returns an item consumes at least one
\* character, so at most Len(source) calls return an item; once a call has
\* returned None or the unexpected-end-of-input error, every later call
\* returns None.  (After an invalid character the lexer goes on.)
C9_LexerFiniteAndStopsAtEof ==
    mode = "lex" =>
        /\ Len(SelectSeq(out, NotNone)) <= Len(source)
        /\ \A i \in 1..Len(out) : \A j \in (i + 1)..Len(out) :
              (out[i].t = "none" \/ (out[i].t = "err" /\ out[i].k = "UnexpectedEof"))
                  => out[j].t = "none"

\* C9 witness: an unterminated string was reported and the calls after it
\* returned None
C9_Witness ==
    /\ mode = "lex"
    /\ Len(out) >= 3
    /\ out[Len(out) - 2].k = "UnexpectedEof"
    /\ out[Len(out) - 1].t = "none"
    /\ out[Len(out)].t = "none"

(***************************************************************************)
(* Spec : compile a source text and run the emitted program                *)
(***************************************************************************)
MaxOps == 2         \* operators in a generated statement
MaxTextLen == 3     \* longest free-form source text of the compile runs
MaxReports == 2     \* calls of Reporter::report on one error

\* operands and operators of the generated statements
Atoms == {<<"7">>, <<"2">>, <<"a">>}

OpChars == {"+", "-", "*", "/", "="}

RECURSIVE Chains(_)
\* operand (operator operand)^n
Chains(n) ==
    IF n = 0 THEN Atoms
    ELSE {c \o <<o>> \o a : c \in Chains(n - 1), o \in OpChars, a \in Atoms}

\* statements with a string literal on one side of one operator
StringStatements ==
    LET s == <<"\"", "s", "\"">> IN
    {s} \cup {a \o <<o>> \o s : a \in Atoms \cup {s}, o \in OpChars}
        \cup {s \o <<o>> \o a : a \in Atoms, o \in OpChars}

\* the programs the documentation names
Examples ==
    { <<"1", "0", "-", "3", "-", "2", ";">>,
      <<"a", "=", "1", ";", " ", "b", "=", "2", ";", " ", "a", "=", "a", "+", "b", ";">>,
      <<"2", "+", "3", "*", "4", ";">>,
      <<"7", "/", "2", ";">>,
      <<"1", "+", "2", "=", "3", ";">>,
      <<"a", "=", "b", "=", "1", ";">>,
      <<"+">> }

\* texts that end inside a string literal
Unterminated ==
    { <<"\"", "a", "b", "c">>,
      <<"7", "+", "\"", "s">>,
      <<"a", "=", "2", ";", " ", "\"">> }

ProgAlphabet == {"+", "1", "a", ";", "=", "#", " "}

Programs ==
    Examples
    \cup Unterminated
    \cup {c \o <<";">> : c \in StringStatements \cup UNION {Chains(n) : n \in 0..MaxOps}}
    \cup TextsOver(ProgAlphabet, MaxTextLen)

\* what the stack and the registers hold when the process starts
Garbage == {0, 5}

\* no instruction was executed yet: no registers recorded, no word written
TraceStart(code) ==
    [at |-> [i \in 1..Len(code) |-> <<>>], writer |-> [a \in WordAddrs |-> 0]]

\* the instruction at c.ip is executed: record the registers it found and
\* itself as the last writer of the words it writes
TraceStep(code, c, t) ==
    [at |-> [t.at EXCEPT ![c.ip] = c.regs],
     writer |-> [a \in WordAddrs |-> IF a \in CpuWrites(code, c) THEN c.ip ELSE t.writer[a]]]

Init ==
    /\ source \in Programs
    /\ mode = "run"
    /\ lexer = LexerNew
    /\ peeked = PeekedNone
    /\ out = <<>>
    /\ lastPeek = PeekedNone
    /\ calls = [peeks |-> 0, everPeeked |-> FALSE]
    /\ pc = "start"
    /\ parsed = <<>>
    /\ asm = <<>>
    /\ cpu = <<>>
    /\ sink = <<>>
    /\ trace = <<>>

\* main.rs : Parser::new(Lexer::new(&input)).parse()
Parse ==
    /\ mode = "run" /\ pc = "start"
    /\ parsed' = ParserParse(source)
    /\ pc' = IF parsed'.r = "ok" THEN "parsed" ELSE "failed"
    /\ UNCHANGED <<source, mode, lexer, peeked, out, lastPeek, calls, asm, cpu, sink, trace>>

\* emit.rs : Codegen::new(&mut out).write(&ast)
Write ==
    /\ mode \in {"run", "gen"} /\ pc = "parsed"
    /\ asm' = CodegenWrite(parsed)
    /\ pc' = IF asm'.r = "ok" THEN "emitted" ELSE "failed"
    /\ UNCHANGED <<source, mode, lexer, peeked, out, lastPeek, calls, parsed, cpu, sink, trace>>

\* the assembled and linked program is started
Launch ==
    /\ mode \in {"run", "gen"} /\ pc = "emitted"
    /\ \E g \in Garbage : cpu' = CpuStart(asm.code, g)
    /\ trace' = TraceStart(asm.code)
    /\ pc' = "running"
    /\ UNCHANGED <<source, mode, lexer, peeked, out, lastPeek, calls, parsed, asm, sink>>

\* the machine executes one instruction
Step ==
    /\ mode \in {"run", "gen"} /\ pc = "running"
    /\ \E effect \in EffectsAt(asm.code, cpu) : cpu' = CpuExec(asm.code, cpu, effect)
    /\ trace' = TraceStep(asm.code, cpu, trace)
    /\ pc' = IF cpu'.status = "run" THEN "running" ELSE "halted"
    /\ UNCHANGED <<source, mode, lexer, peeked, out, lastPeek, calls, parsed, asm, sink>>

\* the error the compilation failed with, as handed to the Reporter
FailedWith ==
    IF parsed.r = "err"
    THEN [stage |-> "parse", kind |-> parsed.kind, span |-> parsed.span,
          lex |-> IF parsed.kind = "Lex" THEN parsed.lex ELSE ItemNone]
    ELSE [stage |-> "codegen", kind |-> asm.kind, span |-> asm.span, lex |-> ItemNone]

\* the compilation returned an error value (it did not panic)
FailedWithError ==
    /\ pc = "failed"
    /\ \/ parsed.r = "err"
       \/ (parsed.r = "ok" /\ asm.r = "err")

\* one call of Reporter::report on the error and the source text
Report ==
    /\ mode = "run" /\ FailedWithError
    /\ Len(sink) < MaxReports
    /\ sink' = Append(sink, ReporterReport(FailedWith, source))
    /\ UNCHANGED <<source, mode, lexer, peeked, out, lastPeek, calls, pc, parsed, asm, cpu, trace>>

Next == Parse \/ Write \/ Launch \/ Step \/ Report

Spec == Init /\ [][Next]_vars

(***************************************************************************)
(* SpecGen : Codegen::write is handed an Ast and the emitted program runs  *)
(***************************************************************************)
MaxArgs == 6        \* arguments of a generated call

\* the span of a generated node; Codegen reads spans only to report errors
GenSpan == MkSpan(0, 1)

\* literal arguments
GenLits == {ExprNum(1, GenSpan), ExprNum(2, GenSpan)}

\* arguments that are variables, binary operations and calls
GenOperands ==
    GenLits
    \cup { ExprVar(0, GenSpan),
           ExprBinary("Sub", GenSpan, ExprNum(7, GenSpan), ExprNum(2, GenSpan)),
           ExprCall("g", <<ExprNum(7, GenSpan)>>, GenSpan) }

GenCalls ==
    {ExprCall("f", args, GenSpan) : args \in TextsOver(GenLits, MaxArgs)}
    \cup {ExprCall("f", args, GenSpan) : args \in TextsOver(GenOperands, 2)}

\* a = 2
GenAssign(rhs) == ExprBinary("Assign", GenSpan, ExprVar(0, GenSpan), rhs)

\* the programs without calls are taken as Parser::parse returns them
GenTexts ==
    Examples \cup {c \o <<";">> : c \in UNION {Chains(n) : n \in 0..1}}

GenAsts ==
    {<<c>> : c \in GenCalls}
    \cup {<<GenAssign(ExprNum(2, GenSpan)), c>> : c \in GenCalls}
    \cup {<<GenAssign(c)>> : c \in GenCalls}
    \cup {ParserParse(t).exprs : t \in {x \in GenTexts : ParserParse(x).r = "ok"}}

InitGen ==
    /\ source = <<>>
    /\ mode = "gen"
    /\ lexer = LexerNew
    /\ peeked = PeekedNone
    /\ out = <<>>
    /\ lastPeek = PeekedNone
    /\ calls = [peeks |-> 0, everPeeked |-> FALSE]
    /\ pc = "parsed"
    /\ parsed \in {[r |-> "ok", exprs |-> a, vars |-> <<>>, ps |-> ParserNew] : a \in GenAsts}
    /\ asm = <<>>
    /\ cpu = <<>>
    /\ sink = <<>>
    /\ trace = <<>>

NextGen == Write \/ Launch \/ Step

SpecGen == InitGen /\ [][NextGen]_vars

(***************************************************************************)
(* Properties of compiled programs                                         *)
(***************************************************************************)
RECURSIVE ExprValue(_)
\* the value the language gives an expression over numeric literals:
\* a binary node combines (left value) op (right value), division truncates,
\* an assignment has the value of its right-hand side
ExprValue(e) ==
    CASE e.kind = "Num" -> e.num
      [] e.op = "Add" -> ExprValue(e.left) + ExprValue(e.right)
      [] e.op = "Sub" -> ExprValue(e.left) - ExprValue(e.right)
      [] e.op = "Mul" -> ExprValue(e.left) * ExprValue(e.right)
      [] e.op = "Div" -> ExprValue(e.left) \div ExprValue(e.right)
      [] e.op = "Assign" -> ExprValue(e.right)

RECURSIVE OverLiterals(_, _)
\* the expression is built from numeric literals with operators of ops only
OverLiterals(e, ops) ==
    CASE e.kind = "Num" -> TRUE
      [] e.kind = "Binary" ->
            /\ e.op \in ops
            /\ OverLiterals(e.left, ops)
            /\ OverLiterals(e.right, ops)
      [] OTHER -> FALSE

\* Parser::parse has just returned: nothing was emitted or reported yet
JustParsed == mode = "run" /\ pc \in {"parsed", "failed"} /\ asm = <<>> /\ sink = <<>>

\* the stages at which Parser::parse has returned an Ast
HasAst == mode = "run" /\ pc # "start" /\ parsed.r = "ok"

\* the stages at which Codegen::write has returned
HasAsm == HasAst /\ pc # "parsed"

\* the emitted program ran to its call of exit
Exited == HasAsm /\ pc = "halted" /\ cpu.status = "exit"

Accumulator == cpu.regs["rax"].lo

\* C1: 10-3-2; is folded as (10-3)-2 and the emitted code leaves 5 in the
\* accumulator; every emitted subtraction leaves (left value) minus (right
\* value) in the accumulator.
C1_SubtractionIsLeftMinusRight ==
    /\ (HasAst /\ source = <<"1", "0", "-", "3", "-", "2", ";">>) =>
            /\ Len(parsed.exprs) = 1
            /\ parsed.exprs[1].op = "Sub"
            /\ parsed.exprs[1].left.kind = "Binary"
            /\ parsed.exprs[1].left.op = "Sub"
            /\ parsed.exprs[1].right.kind = "Num"
    /\ (Exited /\ source = <<"1", "0", "-", "3", "-", "2", ";">>) => Accumulator = 5
    /\ (HasAst /\ Len(parsed.exprs) = 1 /\ OverLiterals(parsed.exprs[1], {"Sub"})) =>
            (pc = "halted" => (cpu.status = "exit" /\ Accumulator = ExprValue(parsed.exprs[1])))

\* C2: in a=1; b=2; a=a+b; both appearances of a in the third statement
\* resolve to one slot, b to another, and the run leaves 3 in the accumulator.
C2_SlotsStableAndSumIsThree ==
    (HasAst /\ source = <<"a", "=", "1", ";", " ", "b", "=", "2", ";", " ",
                          "a", "=", "a", "+", "b", ";">>) =>
        /\ Len(parsed.exprs) = 3
        /\ parsed.exprs[3].left.kind = "Var"
        /\ parsed.exprs[3].right.left.kind = "Var"
        /\ parsed.exprs[3].right.right.kind = "Var"
        /\ parsed.exprs[3].left.i = parsed.exprs[3].right.left.i
        /\ parsed.exprs[3].right.right.i # parsed.exprs[3].left.i
        /\ (pc = "halted" => (cpu.status = "exit" /\ Accumulator = 3))

\* the statement is x op1 y op2 z over numeric literals with op1 of lower
\* precedence than op2, read off the token sequence of the text
IsMixedPrecedenceText(src) ==
    LET t == RawFiltered(src) IN
    /\ Len(t) = 6
    /\ \A i \in 1..6 : t[i].t = "tok"
    /\ t[1].k = "Num" /\ t[3].k = "Num" /\ t[5].k = "Num" /\ t[6].k = "Semi"
    /\ t[2].k \in {"Add", "Sub"}
    /\ t[4].k \in {"Mul", "Div"}

\* C3: 2+3*4; evaluates to 14; a statement x op1 y op2 z with op1 of lower
\* precedence than op2 is parsed as x op1 (y op2 z) and the emitted code
\* leaves the value of that tree in the accumulator.
C3_PrecedenceRespected ==
    /\ (Exited /\ source = <<"2", "+", "3", "*", "4", ";">>) => Accumulator = 14
    /\ (HasAst /\ IsMixedPrecedenceText(source)) =>
            LET t == RawFiltered(source)
                e == parsed.exprs[1]
            IN /\ Len(parsed.exprs) = 1
               /\ e.kind = "Binary" /\ e.op = t[2].k
               /\ e.left.kind = "Num" /\ e.left.num = t[1].num
               /\ e.right.kind = "Binary" /\ e.right.op = t[4].k
               /\ e.right.left.kind = "Num" /\ e.right.left.num = t[3].num
               /\ e.right.right.kind = "Num" /\ e.right.right.num = t[5].num
               /\ (pc = "halted" => (cpu.status = "exit" /\ Accumulator = ExprValue(e)))

\* the text is a / b ; for numeric literals a and b
IsLiteralDivisionText(src) ==
    LET t == RawFiltered(src) IN
    /\ Len(t) = 4
    /\ \A i \in 1..4 : t[i].t = "tok"
    /\ t[1].k = "Num" /\ t[2].k = "Div" /\ t[3].k = "Num" /\ t[4].k = "Semi"

\* the text is a / b ; for numeric literals a and b > 0
IsPositiveDivisionText(src) ==
    IsLiteralDivisionText(src) /\ RawFiltered(src)[3].num > 0

\* C4: for numeric literals a and b > 0 the code emitted for a/b; leaves the
\* truncated quotient of a by b in the accumulator; the remainder stays in
\* edx and no emitted instruction moves it into the accumulator.  The
\* compilation is examined where it can have failed, where Codegen::write
\* has returned, and where the program has stopped.
C4_DivisionTruncates ==
    (mode = "run" /\ pc \in {"failed", "emitted", "halted"} /\ sink = <<>>
        /\ IsPositiveDivisionText(source)) =>
        LET a == RawFiltered(source)[1].num
            b == RawFiltered(source)[3].num
        IN /\ pc # "failed"
           /\ HasAsm
           /\ \A i \in 1..Len(asm.code) :
                 ~(Reg64(asm.code[i].src) = "rdx" /\ Reg64(asm.code[i].dst) = "rax")
           /\ pc = "halted" =>
                /\ cpu.status = "exit"
                /\ Accumulator = a \div b
                /\ cpu.regs["rdx"].lo = a % b

\* C4 witness: 7/2; ran to the end, with a quotient that differs from the
\* exact ratio and from the remainder
C4_Witness ==
    /\ Exited
    /\ source = <<"7", "/", "2", ";">>
    /\ Accumulator = 3
    /\ cpu.regs["rdx"].lo = 1

\* the first statement is an assignment whose target is not a variable
FirstIsBadAssignment ==
    /\ HasAst
    /\ Len(parsed.exprs) >= 1
    /\ parsed.exprs[1].kind = "Binary"
    /\ parsed.exprs[1].op = "Assign"
    /\ parsed.exprs[1].left.kind # "Var"

\* C5: an assignment whose left-hand side is not a plain variable reference
\* parses, and Codegen::write returns ExpectedIdent with the span of the
\* left-hand side.
C5_BadTargetIsExpectedIdent ==
    /\ (mode = "run" /\ pc # "start" /\ source = <<"1", "+", "2", "=", "3", ";">>) =>
            parsed.r = "ok"
    /\ (FirstIsBadAssignment /\ pc # "parsed") =>
            /\ asm.r = "err"
            /\ asm.kind = "ExpectedIdent"
            /\ asm.span = parsed.exprs[1].left.span

IsOperandTok(item) == item.t = "tok" /\ item.k \in {"Num", "Str", "Ident"}

IsJoinTok(item) ==
    item.t = "tok" /\ item.k \in {"Add", "Sub", "Mul", "Div", "Assign", "Semi"}

\* token i stands in primary-expression position and every token before it
\* was accepted: operands and operators / semicolons alternate
InPrimaryPosition(toks, i) ==
    /\ i % 2 = 1
    /\ \A j \in 1..(i - 1) :
          IF j % 2 = 1 THEN IsOperandTok(toks[j]) ELSE IsJoinTok(toks[j])

RECURSIVE IdentsSeen(_, _, _)
\* the names of the identifier tokens among the first n tokens, each once,
\* in order of first appearance
IdentsSeen(toks, n, acc) ==
    IF n = 0 THEN acc
    ELSE LET before == IdentsSeen(toks, n - 1, acc)
         IN IF toks[n].t = "tok" /\ toks[n].k = "Ident"
               /\ \A i \in 1..Len(before) : before[i] # toks[n].str
            THEN Append(before, toks[n].str)
            ELSE before

\* the first n tokens were accepted and token n + 1 stands in
\* primary-expression position without being an operand
RejectedAt(toks, n) ==
    /\ InPrimaryPosition(toks, n + 1)
    /\ toks[n + 1].t = "tok"
    /\ ~IsOperandTok(toks[n + 1])

\* what C10 says of the result of Parser::parse on a text with tokens toks
ExpectedExpressionReported(toks, res) ==
    \A i \in 1..Len(toks) :
        RejectedAt(toks, i - 1) =>
            /\ res.r = "err"
            /\ res.kind = "ExpectedExpression"
            /\ res.span = toks[i].span
            /\ res.ps.vars = IdentsSeen(toks, i - 1, <<>>)

\* C10: when the token in primary-expression position is not a numeric
\* literal, string literal or identifier, Parser::parse returns
\* ExpectedExpression with exactly that token's span, and the variable table
\* holds only the identifiers seen before that token; for the text + the
\* span starts at offset 0.  The result is examined where Parser::parse has
\* just returned.
C10_ExpectedExpressionAtToken ==
    JustParsed =>
        /\ ExpectedExpressionReported(RawFiltered(source), parsed)
        /\ source = <<"+">> =>
              (parsed.r = "err" /\ parsed.kind = "ExpectedExpression" /\ parsed.span.start = 0)

\* C10 witness: the parse failed at an operator or semicolon that follows an
\* identifier and an operator
C10_Witness ==
    /\ mode = "run" /\ pc = "failed"
    /\ parsed.r = "err"
    /\ parsed.kind = "ExpectedExpression"
    /\ parsed.span.start >= 2
    /\ Len(parsed.ps.vars) = 1

(***************************************************************************)
(* Properties of errors and diagnostics                                    *)
(***************************************************************************)
\* index of the first lexical error among the items, 0 if there is none
FirstError(items) ==
    IF \E i \in 1..Len(items) : items[i].t = "err"
    THEN CHOOSE i \in 1..Len(items) :
            items[i].t = "err" /\ \A j \in 1..(i - 1) : items[j].t # "err"
    ELSE 0

\* what C11 says of the result res of Parser::parse on a text whose
\* non-whitespace lexer output is items
LexErrorSurfaces(src, items, res) ==
    /\ (res.r = "err" /\ res.kind = "Lex") =>
            /\ FirstError(items) # 0
            /\ res.lex = items[FirstError(items)]
            /\ res.span = res.lex.span
            /\ res.lex.k = "UnexpectedEof" =>
                    (src[res.span.start + 1] = "\"" /\ res.span.end = Len(src))
            /\ res.lex.k = "InvalidCharacter" =>
                    (res.lex.str = <<src[res.span.start + 1]>>
                        /\ res.span.end = res.span.start + 1)
    /\ (items # <<>> /\ items[1].t = "err") =>
            (res.r = "err" /\ res.kind = "Lex" /\ res.lex = items[1])

\* C11: a lexical error reaches the caller of Parser::parse wrapped as a
\* lexical error with its kind and span unchanged; the text "abc without a
\* closing quote fails with unexpected-end-of-input whose span starts at the
\* opening quote, and # fails with invalid-character '#' and span 0..1.
C11_LexErrorsSurfaceUnchanged ==
    JustParsed =>
        /\ LexErrorSurfaces(source, RawFiltered(source), parsed)
        /\ source = <<"\"", "a", "b", "c">> =>
              /\ parsed.r = "err" /\ parsed.kind = "Lex"
              /\ parsed.lex.k = "UnexpectedEof"
              /\ parsed.span.start = 0
        /\ source = <<"#">> =>
              /\ parsed.r = "err" /\ parsed.kind = "Lex"
              /\ parsed.lex = ErrInvalidCharacter("#", MkSpan(0, 1))
              /\ parsed.span = MkSpan(0, 1)

\* C11 witness: the parse failed with an unexpected-end-of-input error of a
\* string literal that opens after the first token
C11_Witness ==
    /\ mode = "run" /\ pc = "failed"
    /\ parsed.r = "err" /\ parsed.kind = "Lex"
    /\ parsed.lex.k = "UnexpectedEof"
    /\ parsed.span.start > 0

\* the text o has the layout C12 gives: the header line with a message, the
\* source text verbatim, and a caret line with column leading spaces
IsDiagnostic(o, src, column) ==
    LET n == Len(o)
        caret == n - 2
        srcEnd == caret - column - 2
        srcStart == srcEnd - Len(src) + 1
    IN /\ srcStart >= 4
       /\ o[1] = "[error]: "
       /\ \A j \in 2..(srcStart - 2) : o[j] # "\n"
       /\ o[srcStart - 1] = "\n"
       /\ SubSeq(o, srcStart, srcEnd) = src
       /\ o[srcEnd + 1] = "\n"
       /\ \A j \in (srcEnd + 2)..(caret - 1) : o[j] = " "
       /\ o[caret] = "^"
       /\ o[n] = "\n"

RECURSIVE StartsWithString(_)
\* the first operand Codegen::expr is called on below e is a string literal
StartsWithString(e) ==
    CASE e.kind = "Str" -> TRUE
      [] e.kind = "Binary" /\ e.op = "Assign" -> StartsWithString(e.right)
      [] e.kind = "Binary" -> StartsWithString(e.left)
      [] OTHER -> FALSE

\* C13: when an operand position holds a string literal, Codegen::write
\* returns the ExpectedIntExpr error with the span of the literal; it does
\* not panic.
C13_StringOperandIsExpectedIntExpr ==
    (HasAst /\ pc # "parsed" /\ parsed.exprs # <<>> /\ StartsWithString(parsed.exprs[1])) =>
        /\ asm.r = "err"
        /\ asm.kind = "ExpectedIntExpr"

(***************************************************************************)
(* Properties of the code emitted for calls and of the stack               *)
(***************************************************************************)
\* the Ast is one statement, a call whose arguments are numeric literals
IsLiteralCall ==
    /\ mode = "gen"
    /\ Len(parsed.exprs) = 1
    /\ parsed.exprs[1].kind = "Call"
    /\ \A i \in 1..Len(parsed.exprs[1].args) : parsed.exprs[1].args[i].kind = "Num"

\* index of the first instruction emitted for the statements of main
BodyStart == Len(CodegenEntry) + Len(CodegenStartMain) + 1

\* index of the first instruction of Codegen::end_main
BodyEnd == Len(asm.code) - Len(CodegenEndMain) + 1

\* the machine is about to execute the instruction with index k
About(k) == pc = "running" /\ cpu.status = "run" /\ cpu.ip = k

\* the machine is about to execute the call of the routine name
AboutToCall(name) ==
    /\ pc = "running" /\ cpu.status = "run"
    /\ asm.code[cpu.ip].op = "call"
    /\ asm.code[cpu.ip].src = name

\* C14: when the emitted call instruction executes, the i-th argument
\* register in the order rdi, rsi, rdx, rcx, r8, r9 holds the value of the
\* i-th argument in source order, and the accumulator holds 0.
C14_ArgumentsInRegisterOrder ==
    (IsLiteralCall /\ AboutToCall(parsed.exprs[1].name)) =>
        /\ \A i \in 1..Len(parsed.exprs[1].args) :
              cpu.regs[REGISTERS[i]] = Q(parsed.exprs[1].args[i].num, 0)
        /\ cpu.regs["rax"].lo = 0

\* C15: after the call sequence each argument register beyond the first
\* that the call uses holds the value it held before the sequence began.
C15_ArgumentRegistersPreserved ==
    (IsLiteralCall /\ About(BodyEnd)) =>
        \A i \in 2..Len(parsed.exprs[1].args) :
            cpu.regs[REGISTERS[i]] = trace.at[BodyStart][REGISTERS[i]]

(***************************************************************************)
(* Properties of the tree and of the variable table                        *)
(***************************************************************************)
\* the text is x = y = n ; for identifiers x, y and a numeric literal n
IsChainedAssignmentText(src) ==
    LET t == RawFiltered(src) IN
    /\ Len(t) = 6
    /\ \A i \in 1..6 : t[i].t = "tok"
    /\ t[1].k = "Ident" /\ t[2].k = "Assign" /\ t[3].k = "Ident"
    /\ t[4].k = "Assign" /\ t[5].k = "Num" /\ t[6].k = "Semi"

\* C16: for a chained assignment such as a=b=1; the parser builds
\* assign(a, assign(b, 1)): the left operand of the outer assignment is the
\* variable reference and its right operand is the inner assignment.
C16_AssignmentIsRightRecursive ==
    (JustParsed /\ IsChainedAssignmentText(source)) =>
        /\ parsed.r = "ok"
        /\ Len(parsed.exprs) = 1
        /\ parsed.exprs[1].kind = "Binary" /\ parsed.exprs[1].op = "Assign"
        /\ parsed.exprs[1].left.kind = "Var"
        /\ parsed.exprs[1].right.kind = "Binary" /\ parsed.exprs[1].right.op = "Assign"

RECURSIVE VarNodes(_)
\* the Var nodes of a tree
VarNodes(e) ==
    CASE e.kind = "Var" -> {e}
      [] e.kind = "Binary" -> VarNodes(e.left) \cup VarNodes(e.right)
      [] OTHER -> {}

\* the Var nodes of the statements of an Ast
AstVarNodes(exprs) == UNION {VarNodes(exprs[k]) : k \in 1..Len(exprs)}

\* the table holds every name once
NoDuplicates(tbl) == \A i, j \in 1..Len(tbl) : tbl[i] = tbl[j] => i = j

\* a is an initial part of b
IsPrefix(a, b) == Len(a) <= Len(b) /\ SubSeq(b, 1, Len(a)) = a

\* what C17 says of the result res of Parser::parse on the text src with
\* tokens toks
IndicesDenseAndStable(src, toks, res) ==
    LET seen == IdentsSeen(toks, Len(toks), <<>>) IN
    IF res.r = "ok"
    THEN /\ res.vars = seen
         /\ NoDuplicates(res.vars)
         /\ \A v \in AstVarNodes(res.exprs) :
               /\ 0 <= v.i /\ v.i < Len(res.vars)
               /\ res.vars[v.i + 1] = SubSeq(src, v.span.start + 1, v.span.end)
         /\ {v.i : v \in AstVarNodes(res.exprs)} = 0..(Len(res.vars) - 1)
    ELSE /\ NoDuplicates(res.ps.vars)
         /\ IsPrefix(res.ps.vars, seen)

\* C17: after parsing, the variable table holds each distinct identifier
\* once in order of first appearance, every Var(i) node has
\* 0 <= i < number of entries and i is the position of its name, also when
\* names were inserted after the node was built or the parse ended in an
\* error.
C17_VariableIndicesDenseAndStable ==
    (JustParsed /\ parsed.r \in {"ok", "err"}) =>
        IndicesDenseAndStable(source, RawFiltered(source), parsed)

\* C17 witness: a program with two variables, the first used again after
\* the second was inserted, was parsed
C17_Witness ==
    /\ mode = "run" /\ pc = "parsed"
    /\ Len(parsed.vars) = 2
    /\ \E k \in 1..Len(parsed.exprs) :
          \E v \in VarNodes(parsed.exprs[k]) :
              /\ v.i = 0
              /\ \E j \in 1..(k - 1) : \E w \in VarNodes(parsed.exprs[j]) : w.i = 1

(***************************************************************************)
(* Properties of spans as byte offsets                                     *)
(***************************************************************************)
\* C18: every span the lexer attaches to a token is a half-open range of
\* byte offsets into the source: the first token starts at 0, each token
\* starts where the previous one ended, the last token returned ends at the
\* byte offset the scan has reached, and slicing the source at the span
\* does not fail, also for text with multi-byte characters.
C18_SpansAreByteOffsets ==
    mode = "lex" =>
        /\ \A i \in 1..Len(out) : out[i].t # "panic"
        /\ \A i \in 1..Len(out) :
              out[i].t = "tok" =>
                  /\ out[i].span.start = IF i = 1 THEN 0 ELSE out[i - 1].span.end
                  /\ SliceOk(source, out[i].span)
        /\ (out # <<>> /\ out[Len(out)].t = "tok") =>
              out[Len(out)].span.end = ByteOffsetOf(source, lexer.chars)

(***************************************************************************)
(* Properties of the stack frame                                           *)
(***************************************************************************)
\* the first statement of main was reached: the frame base is set
InFrame == HasAsm /\ pc \in {"running", "halted"} /\ trace.at[BodyStart] # <<>>

\* the frame base: %rbp as the first statement of main found it
FrameBase == trace.at[BodyStart]["rbp"].lo

\* C19: the only writes to the frame bytes of the slot of a variable
\* (offset (index + 1) * 4 below the frame base) are the stores emitted for
\* assignments to that variable; no push writes into a slot.
C19_SlotsWrittenOnlyByStores ==
    InFrame =>
        \A v \in 0..(Len(parsed.vars) - 1) :
            LET w == trace.writer[FrameBase - (v + 1) * 4] IN
            w # 0 => (asm.code[w].op = "store32" /\ asm.code[w].imm = (v + 1) * 4)

\* number of instructions emitted for an expression
CodeLen(e) == Len(CodegenExpr(e).code)

RECURSIVE ArgStart(_, _, _)
\* index of the first instruction of argument i of a call whose arguments
\* start at lo: every earlier argument is followed by its push
ArgStart(args, i, lo) ==
    IF i = 1 THEN lo ELSE ArgStart(args, i - 1, lo) + CodeLen(args[i - 1]) + 1

RECURSIVE ExprRanges(_, _)
\* the instruction ranges lo .. hi - 1 of an expression emitted at index lo
\* and of the expressions below it
ExprRanges(e, lo) ==
    {[lo |-> lo, hi |-> lo + CodeLen(e)]}
    \cup CASE e.kind = "Binary" /\ e.op = "Assign" -> ExprRanges(e.right, lo)
            [] e.kind = "Binary" ->
                  ExprRanges(e.left, lo)
                  \cup ExprRanges(e.right, lo + CodeLen(e.left) + 1)
            [] e.kind = "Call" ->
                  UNION {ExprRanges(e.args[i],
                                    ArgStart(e.args, i, lo + Len(CallSaves(Len(e.args)))))
                         : i \in 1..Len(e.args)}
            [] OTHER -> {}

RECURSIVE StmtStart(_, _)
\* index of the first instruction of statement k
StmtStart(exprs, k) ==
    IF k = 1 THEN BodyStart ELSE StmtStart(exprs, k - 1) + CodeLen(exprs[k - 1])

\* the ranges of all expressions of the program
AllRanges(exprs) ==
    UNION {ExprRanges(exprs[k], StmtStart(exprs, k)) : k \in 1..Len(exprs)}

\* the innermost expression whose code holds the instruction with index k
Owner(ranges, k) ==
    LET holding == {r \in ranges : r.lo <= k /\ k < r.hi}
    IN CHOOSE r \in holding : \A q \in holding : r.hi - r.lo <= q.hi - q.lo

\* the emitted program is being executed
Executing == mode \in {"run", "gen"} /\ pc = "running" /\ cpu.status = "run"

\* the 8 bytes at the stack pointer were last written by instruction w
TopWrittenBy(w) ==
    /\ cpu.regs["rsp"].lo \in WordAddrs
    /\ trace.writer[cpu.regs["rsp"].lo] = w
    /\ trace.writer[cpu.regs["rsp"].lo + 4] = w

\* the stack is as C20 says when the instruction with index k is about to
\* execute
StackBalancedAt(ranges, k) ==
    /\ \A r \in ranges :
          r.hi = k => cpu.regs["rsp"] = trace.at[r.lo]["rsp"]
    /\ (asm.code[k].op = "pop" /\ BodyStart <= k /\ k < BodyEnd) =>
          \E w \in Owner(ranges, k).lo..(k - 1) :
              /\ asm.code[w].op = "push"
              /\ Owner(ranges, w) = Owner(ranges, k)
              /\ TopWrittenBy(w)
    /\ asm.code[k].op = "ret" =>
          \E w \in 1..Len(asm.code) :
              /\ asm.code[w].op = "call" /\ asm.code[w].src = "main"
              /\ TopWrittenBy(w)

====
